---- MODULE Spec2Model ----
(***************************************************************************)
(* Model of src/bot.py: the Telegram handlers of the "Will" bot (start,    *)
(* set_key, my_key, del_key, handle_message), the per-user credential      *)
(* store context.user_data, and the process lifecycle around the           *)
(* PicklePersistence file.                                                 *)
(*                                                                         *)
(* Every handler is an asyncio coroutine.  A handler runs without          *)
(* interruption up to its next `await` of a network call; there another    *)
(* update's handler may run.  Each action below is one such uninterrupted  *)
(* stretch.  Texts that the code slices or searches (keys, error texts)    *)
(* are sequences of one-character strings.                                 *)
(*                                                                         *)
(* Every call to Telegram (delete, reply_text, reply_html,                 *)
(* send_chat_action) and the provider call either returns or raises; the   *)
(* model takes both outcomes.  A slot records the calls its handler has    *)
(* made.  Commands always carry update.message; only for handle_message,   *)
(* which tests for it, is an update without a message among the inputs.    *)
(***************************************************************************)
EXTENDS Naturals, Sequences, FiniteSets

\* ------------------------------------------------------------------ bounds

\* Largest number of choices in a provider response the model enumerates.
MaxChoices == 2
\* Longest key enumerated by the key-preview specification SpecKeys.
MaxKeyLen == 9

\* --------------------------------------------------------------- constants

Users == {"u1", "u2"}
\* Updates that can be in flight at the same time (one webhook request each).
Slots == {"a", "b"}

MODELLO_IA == "mistralai/mistral-small-3.2-24b-instruct:free"
SYSTEM_PROMPT ==
    "You are an AI assistant named 'Will', and you will always be ready to respond with short, accurate answers or long, detailed ones depending on the context. with the same language the user is speaking. If you're asked, you'll answer that your creator is lollo21, an italian indie developer."
BASE_URL == "https://openrouter.ai/api/v1"

\* The key under which set_key stores the credential in context.user_data.
API_KEY == "api_key"

\* "Incorrect API key", the text handle_message looks for in str(e).
INVALID_KEY_SIGNAL ==
    <<"I","n","c","o","r","r","e","c","t"," ","A","P","I"," ","k","e","y">>

\* "..." as put between the two halves of a key preview.
ELLIPSIS == <<".", ".", ".">>

\* The fixed reply texts (emoji left out).
MSG_START ==
    "Hi <b>{user_name}</b>, I'm <b>Will</b>, an AI assistant created by lollo21! \n\nTo use me, you must first provide your OpenRouter API key.\n\nUse the command:\n<code>/setkey YOUR_API_KEY</code>\n\nYour key will only be used to process your requests. For security, the message containing your key will be deleted immediately."
MSG_USAGE == "Error: You must provide a key.\nUsage: /setkey <your_api_key>"
MSG_SAVED_DELETED ==
    "OpenRouter API key saved successfully! Your original message has been deleted for security.\n\nNow you can start chatting."
MSG_SAVED_NOT_DELETED ==
    "OpenRouter API key saved! (I couldn't delete your original message, please delete it manually)."
MSG_PREVIEW == "You have an API key set: {key_preview}"    \* the preview in backquotes
MSG_NOT_SET == "You haven't set an API key yet. Use /setkey <your_key>."
MSG_REMOVED == "Your API key has been removed."
MSG_NOTHING_TO_REMOVE == "You don't have an API key to remove."
MSG_SET_KEY_FIRST ==
    "You must set your OpenRouter API key first. Use the command: /setkey <your_api_key>"
MSG_COMPLETION == "{response_text}"
MSG_KEY_INVALID ==
    "Your OpenRouter API key seems to be incorrect or invalid. Please try again with /setkey"
MSG_ERROR == "Sorry, an error occurred. Please try again later."

\* The log lines.
LOG_KEY_SET == "INFO API Key set for user {user_id}"
LOG_NOT_DELETED == "WARNING Could not delete the key message: {e}"
LOG_OPENROUTER == "ERROR Error calling OpenRouter for user {update.effective_user.id}: {e}"

\* ------------------------------------------------------------ input values

\* Keys a user may send in the concurrent specifications: a long one and one
\* shorter than four characters.
K_LONG == <<"s","k","-","A","B","C","D","1","2","3","4">>
K_SHORT == <<"x","y","z">>
Keys == {K_LONG, K_SHORT}

\* The argument lists of /setkey: none, one key, or two (only the first counts).
ArgLists == {<<>>} \cup {<<k>> : k \in Keys} \cup {<<K_SHORT, K_LONG>>}

\* The keys of the key-preview specification: every non-empty text of at most
\* MaxKeyLen characters over a letter and the dot.
KeyAlphabet == {"k", "."}

T_HELLO == <<"h","e","l","l","o">>
\* update.message: absent (<<>>), or present with its text (possibly empty).
Messages == {<<>>, << <<>> >>, <<T_HELLO>>}

R_HI == <<"h","i"," ","t","h","e","r","e">>
R_OK == <<"o","k">>
Contents == {R_HI, R_OK}

\* str(e) of the errors the provider call can raise.
E_SIGNAL == INVALID_KEY_SIGNAL
E_EMBEDDED == <<"4","0","1",":"," ">> \o INVALID_KEY_SIGNAL \o <<" ","p","r","o","v","i","d","e","d">>
E_LOWER == <<"i","n","c","o","r","r","e","c","t"," ","A","P","I"," ","k","e","y">>
E_CUT == <<"I","n","c","o","r","r","e","c","t"," ","A","P","I"," ","k","e">>
E_RATE == <<"R","a","t","e"," ","l","i","m","i","t">>
ProviderErrors == {E_SIGNAL, E_EMBEDDED, E_LOWER, E_CUT, E_RATE}

\* str(e) of IndexError (completion.choices[0] on an empty list).
E_INDEX == <<"l","i","s","t"," ","i","n","d","e","x"," ","o","u","t"," ","o","f"," ","r","a","n","g","e">>
\* str(e) of a failed Telegram call (delete, reply_text, send_chat_action).
E_TELEGRAM == <<"T","i","m","e","d"," ","o","u","t">>

\* ----------------------------------------------------------------- helpers

Min(a, b) == IF a <= b THEN a ELSE b
Max(a, b) == IF a >= b THEN a ELSE b

\* Python s[:n]
Prefix(s, n) == SubSeq(s, 1, Min(n, Len(s)))
\* Python s[-n:]
Suffix(s, n) == SubSeq(s, Max(1, Len(s) - n + 1), Len(s))

\* Python `needle in s`
Contains(needle, s) ==
    \E i \in 0..Len(s) :
        /\ i + Len(needle) <= Len(s)
        /\ SubSeq(s, i + 1, i + Len(needle)) = needle

\* All sequences over alphabet S of length at most n.
RECURSIVE SeqsUpTo(_, _)
SeqsUpTo(S, n) ==
    IF n = 0 THEN {<<>>}
    ELSE LET shorter == SeqsUpTo(S, n - 1)
         IN  shorter \cup {Append(s, c) : s \in shorter, c \in S}

\* A provider response: its list of choices, each choice's message content.
Responses == SeqsUpTo(Contents, MaxChoices)

\* context.user_data of one user is a dict; a dict is its set of items.
EmptyDict == {}
HasKey(d, k) == \E p \in d : p[1] = k
GetItem(d, k) == (CHOOSE p \in d : p[1] = k)[2]
SetItem(d, k, v) == {p \in d : p[1] # k} \cup {<<k, v>>}
DelItem(d, k) == {p \in d : p[1] # k}

Reply(fmt, arg) == [fmt |-> fmt, arg |-> arg]
LogLine(fmt, arg) == [fmt |-> fmt, arg |-> arg]

\* Mutation of KeyPreview: key[4:] in place of key[-4:].
KeyPreview_from_fourth(key) == Prefix(key, 4) \o ELLIPSIS \o SubSeq(key, 5, Len(key))

\* key_preview of my_key.
KeyPreview(key) == Prefix(key, 4) \o ELLIPSIS \o Suffix(key, 4)

\* The messages argument of chat.completions.create.
ChatMessages(user_text) ==
    << [role |-> "system", content |-> <<SYSTEM_PROMPT>>],
       [role |-> "user", content |-> user_text] >>

\* The outbound completion request of handle_message.
CompletionRequest(user_key, user_text) ==
    [base_url |-> BASE_URL, api_key |-> user_key, model |-> MODELLO_IA,
     messages |-> ChatMessages(user_text)]

\* response_text = completion.choices[0].message.content
ResponseText(choices) == choices[1]

\* Mutation of ErrorReply: str(e) compared with the signal, not searched for it.
ErrorReply_equality(err) ==
    IF err = INVALID_KEY_SIGNAL
    THEN Reply(MSG_KEY_INVALID, <<>>)
    ELSE Reply(MSG_ERROR, <<>>)

\* The reply of handle_message's except branch for str(e) = err.
ErrorReply(err) ==
    IF Contains(INVALID_KEY_SIGNAL, err)
    THEN Reply(MSG_KEY_INVALID, <<>>)
    ELSE Reply(MSG_ERROR, <<>>)

\* What the provider call returns or raises: a response (its choices) or str(e).
ProviderResults ==
    {[ok |-> TRUE, choices |-> c, err |-> <<>>] : c \in Responses}
    \cup {[ok |-> FALSE, choices |-> <<>>, err |-> e] : e \in ProviderErrors}
NoResult == [ok |-> FALSE, choices |-> <<>>, err |-> <<>>]

\* ------------------------------------------------------------------- state

VARIABLES
    user_data,  \* application.user_data: user id -> that user's dict (in memory;
                \* while the process is down, the value it held when it stopped)
    disk,       \* the user data in bot_persistence.pickle
    running,    \* whether the process is up (between startup and stop or crash)
    last_cmd,   \* history: per user, the latest /setkey <key> or /delkey handled
    slot        \* per webhook request in flight: the handler's position, its
                \* locals, and the calls it has made so far

vars == <<user_data, disk, running, last_cmd, slot>>

NoCmd == [cmd |-> "none", key |-> <<>>]

\* A slot with no update in it.
Idle ==
    [pc |-> "idle", handler |-> "none", user |-> "none",
     args |-> <<>>,        \* context.args
     message |-> <<>>,     \* update.message: <<>> or <<text>>
     seen |-> EmptyDict,   \* context.user_data as the handler read it
     user_key |-> <<>>,    \* local user_key of handle_message
     result |-> NoResult,  \* what the completion call returned or raised
     requests |-> <<>>,    \* completion requests issued
     replies |-> <<>>,     \* reply_text / reply_html calls made
     sent |-> <<>>,        \* per finished reply call: whether it was delivered
     deletes |-> 0,        \* update.message.delete() calls made
     deleted |-> <<>>,     \* per finished delete call: whether it succeeded
     typing |-> 0,         \* send_chat_action calls made
     log |-> <<>>]         \* logger calls made

Free(s) == running /\ slot[s].pc \in {"idle", "done", "raised"}

\* The slot as process_update hands the update to a handler.
Fresh(handler, u, args, message) ==
    [Idle EXCEPT !.handler = handler, !.user = u, !.args = args,
                 !.message = message]
\* The same for a handler that reads context.user_data.
FreshReading(handler, u, message) ==
    [Fresh(handler, u, <<>>, message) EXCEPT !.seen = user_data[u]]

Init ==
    /\ user_data = [u \in Users |-> EmptyDict]
    /\ disk = [u \in Users |-> EmptyDict]
    /\ running = TRUE
    /\ last_cmd = [u \in Users |-> NoCmd]
    /\ slot = [s \in Slots |-> Idle]

\* --------------------------------------------------------------- handlers

\* start: one reply_html, awaited.
start(s, u) ==
    /\ Free(s)
    /\ slot' = [slot EXCEPT ![s] =
                  [Fresh("start", u, <<>>, <<>>) EXCEPT
                     !.replies = <<Reply(MSG_START, <<u>>)>>, !.pc = "reply"]]
    /\ UNCHANGED <<user_data, disk, running, last_cmd>>

\* Mutation of StoreKey: setdefault, which keeps a key already stored.
StoreKey_setdefault(d, user_key) ==
    IF HasKey(d, API_KEY) THEN d ELSE SetItem(d, API_KEY, user_key)

\* context.user_data["api_key"] = user_key
StoreKey(d, user_key) == SetItem(d, API_KEY, user_key)

\* set_key up to its first await: the usage reply, or the key stored, the
\* info line logged and update.message.delete() called.
set_key(s, u, args) ==
    /\ Free(s)
    /\ IF args = <<>>
       THEN /\ slot' = [slot EXCEPT ![s] =
                          [Fresh("set_key", u, args, <<>>) EXCEPT
                             !.replies = <<Reply(MSG_USAGE, <<>>)>>, !.pc = "reply"]]
            /\ UNCHANGED <<user_data, last_cmd>>
       ELSE /\ user_data' = [user_data EXCEPT ![u] = StoreKey(@, args[1])]
            /\ last_cmd' = [last_cmd EXCEPT ![u] = [cmd |-> "set_key", key |-> args[1]]]
            /\ slot' = [slot EXCEPT ![s] =
                          [Fresh("set_key", u, args, <<>>) EXCEPT
                             !.log = <<LogLine(LOG_KEY_SET, <<>>)>>,
                             !.deletes = 1, !.pc = "sk_delete"]]
    /\ UNCHANGED <<disk, running>>

\* Mutation of AfterDelete: no try block, a failed delete() ends the handler.
AfterDelete_unguarded(r, ok) ==
    IF ok
    THEN [r EXCEPT !.deleted = Append(@, TRUE),
                   !.replies = Append(@, Reply(MSG_SAVED_DELETED, <<>>)),
                   !.pc = "sk_reply"]
    ELSE [r EXCEPT !.deleted = Append(@, FALSE), !.pc = "raised"]

\* What set_key does when delete() has returned (ok) or raised: the success
\* notice, or the warning and the fallback notice.
AfterDelete(r, ok) ==
    IF ok
    THEN [r EXCEPT !.deleted = Append(@, TRUE),
                   !.replies = Append(@, Reply(MSG_SAVED_DELETED, <<>>)),
                   !.pc = "sk_reply"]
    ELSE [r EXCEPT !.deleted = Append(@, FALSE),
                   !.log = Append(@, LogLine(LOG_NOT_DELETED, E_TELEGRAM)),
                   !.replies = Append(@, Reply(MSG_SAVED_NOT_DELETED, <<>>)),
                   !.pc = "reply"]

set_key_deleted(s, ok) ==
    /\ running
    /\ slot[s].pc = "sk_delete"
    /\ slot' = [slot EXCEPT ![s] = AfterDelete(@, ok)]
    /\ UNCHANGED <<user_data, disk, running, last_cmd>>

\* What set_key does when the success notice, sent inside the try block, has
\* returned (ok) or raised: done, or the except branch.
AfterSavedReply(r, ok) ==
    IF ok
    THEN [r EXCEPT !.sent = Append(@, TRUE), !.pc = "done"]
    ELSE [r EXCEPT !.sent = Append(@, FALSE),
                   !.log = Append(@, LogLine(LOG_NOT_DELETED, E_TELEGRAM)),
                   !.replies = Append(@, Reply(MSG_SAVED_NOT_DELETED, <<>>)),
                   !.pc = "reply"]

set_key_replied(s, ok) ==
    /\ running
    /\ slot[s].pc = "sk_reply"
    /\ slot' = [slot EXCEPT ![s] = AfterSavedReply(@, ok)]
    /\ UNCHANGED <<user_data, disk, running, last_cmd>>

\* The reply of my_key for the user's dict d.
MyKeyReply(d) ==
    IF HasKey(d, API_KEY)
    THEN Reply(MSG_PREVIEW, KeyPreview(GetItem(d, API_KEY)))
    ELSE Reply(MSG_NOT_SET, <<>>)

my_key(s, u) ==
    /\ Free(s)
    /\ slot' = [slot EXCEPT ![s] =
                  [FreshReading("my_key", u, <<>>) EXCEPT
                     !.replies = <<MyKeyReply(user_data[u])>>, !.pc = "reply"]]
    /\ UNCHANGED <<user_data, disk, running, last_cmd>>

\* Mutation of DelKeyReply: the removal is reported whether or not a key was stored.
DelKeyReply_always_removed(d) == Reply(MSG_REMOVED, <<>>)

\* The user's dict after del_key, and del_key's reply, for the dict d.
DelKeyDict(d) == IF HasKey(d, API_KEY) THEN DelItem(d, API_KEY) ELSE d
DelKeyReply(d) ==
    IF HasKey(d, API_KEY)
    THEN Reply(MSG_REMOVED, <<>>)
    ELSE Reply(MSG_NOTHING_TO_REMOVE, <<>>)

del_key(s, u) ==
    /\ Free(s)
    /\ user_data' = [user_data EXCEPT ![u] = DelKeyDict(@)]
    /\ slot' = [slot EXCEPT ![s] =
                  [FreshReading("del_key", u, <<>>) EXCEPT
                     !.replies = <<DelKeyReply(user_data[u])>>, !.pc = "reply"]]
    /\ last_cmd' = [last_cmd EXCEPT ![u] = [cmd |-> "del_key", key |-> <<>>]]
    /\ UNCHANGED <<disk, running>>

\* Mutation of KeyMissing: the test left out.
KeyMissing_never(d) == FALSE

\* The test `"api_key" not in context.user_data` that opens handle_message.
KeyMissing(d) == ~HasKey(d, API_KEY)

\* handle_message up to its first await, for the slot r as handed over:
\* without a key the guidance reply (update.message is used before it is
\* tested, so an update without a message raises AttributeError there);
\* with a key, return on a missing message or empty text, else read the
\* locals and call send_chat_action.
BeginMessage(r) ==
    IF KeyMissing(r.seen)
    THEN IF r.message = <<>>
         THEN [r EXCEPT !.pc = "raised"]
         ELSE [r EXCEPT !.replies = <<Reply(MSG_SET_KEY_FIRST, <<>>)>>,
                        !.pc = "reply"]
    ELSE IF r.message = <<>> \/ r.message[1] = <<>>
         THEN [r EXCEPT !.pc = "done"]
         ELSE IF ~HasKey(r.seen, API_KEY)
              THEN [r EXCEPT !.pc = "raised"]     \* KeyError
              ELSE [r EXCEPT !.user_key = GetItem(r.seen, API_KEY),
                             !.typing = 1, !.pc = "hm_typing"]

handle_message(s, u, message) ==
    /\ Free(s)
    /\ slot' = [slot EXCEPT ![s] =
                  BeginMessage(FreshReading("handle_message", u, message))]
    /\ UNCHANGED <<user_data, disk, running, last_cmd>>

\* send_chat_action raised: it is outside the try block, the handler ends.
handle_message_typing_failed(s) ==
    /\ running
    /\ slot[s].pc = "hm_typing"
    /\ slot' = [slot EXCEPT ![s].pc = "raised"]
    /\ UNCHANGED <<user_data, disk, running, last_cmd>>

\* send_chat_action returned: the completion request is issued and, the call
\* being synchronous, answered by res in the same stretch; then the reply with
\* the first choice's content, or the except branch (an empty list of choices
\* raises IndexError inside the try block).
AfterTyping(r, res) ==
    LET q == [r EXCEPT
                !.requests = Append(@, CompletionRequest(r.user_key, r.message[1])),
                !.result = res]
    IN  IF res.ok /\ res.choices # <<>>
        THEN [q EXCEPT
                !.replies = Append(@, Reply(MSG_COMPLETION, ResponseText(res.choices))),
                !.pc = "hm_reply"]
        ELSE LET e == IF res.ok THEN E_INDEX ELSE res.err
             IN  [q EXCEPT !.log = Append(@, LogLine(LOG_OPENROUTER, e)),
                           !.replies = Append(@, ErrorReply(e)),
                           !.pc = "reply"]

handle_message_completion(s, res) ==
    /\ running
    /\ slot[s].pc = "hm_typing"
    /\ slot' = [slot EXCEPT ![s] = AfterTyping(@, res)]
    /\ UNCHANGED <<user_data, disk, running, last_cmd>>

\* The reply with the completion, sent inside the try block, has returned (ok)
\* or raised: done, or the except branch with the Telegram error's text.
AfterCompletionReply(r, ok) ==
    IF ok
    THEN [r EXCEPT !.sent = Append(@, TRUE), !.pc = "done"]
    ELSE [r EXCEPT !.sent = Append(@, FALSE),
                   !.log = Append(@, LogLine(LOG_OPENROUTER, E_TELEGRAM)),
                   !.replies = Append(@, ErrorReply(E_TELEGRAM)),
                   !.pc = "reply"]

handle_message_replied(s, ok) ==
    /\ running
    /\ slot[s].pc = "hm_reply"
    /\ slot' = [slot EXCEPT ![s] = AfterCompletionReply(@, ok)]
    /\ UNCHANGED <<user_data, disk, running, last_cmd>>

\* A handler's last call, a reply outside any try block, has returned (the
\* handler is done) or raised (the exception leaves the handler).
Returned(r, ok) ==
    [r EXCEPT !.sent = Append(@, ok), !.pc = IF ok THEN "done" ELSE "raised"]

Returns(s, handler, ok) ==
    /\ running
    /\ slot[s].pc = "reply"
    /\ slot[s].handler = handler
    /\ slot' = [slot EXCEPT ![s] = Returned(@, ok)]
    /\ UNCHANGED <<user_data, disk, running, last_cmd>>

start_returns(s, ok) == Returns(s, "start", ok)
set_key_returns(s, ok) == Returns(s, "set_key", ok)
my_key_returns(s, ok) == Returns(s, "my_key", ok)
del_key_returns(s, ok) == Returns(s, "del_key", ok)
handle_message_returns(s, ok) == Returns(s, "handle_message", ok)

\* ------------------------------------------------------ process lifecycle

\* The persistence loop started by application.start() writes the user data
\* to the pickle file; it runs on its own timer, not when a handler ends.
update_persistence ==
    /\ running
    /\ disk' = user_data
    /\ UNCHANGED <<user_data, running, last_cmd, slot>>

\* The process is killed: nothing is written, the handlers in flight are lost.
crash ==
    /\ running
    /\ running' = FALSE
    /\ UNCHANGED <<user_data, disk, last_cmd, slot>>

\* shutdown_event: application.stop(), then delete_webhook(), then
\* application.shutdown(), which writes the user data; when delete_webhook
\* raises, shutdown() is not reached.
shutdown_event(webhook_deleted) ==
    /\ running
    /\ running' = FALSE
    /\ disk' = IF webhook_deleted THEN user_data ELSE disk
    /\ UNCHANGED <<user_data, last_cmd, slot>>

\* startup_event: application.initialize() loads the user data from the file.
startup_event ==
    /\ ~running
    /\ running' = TRUE
    /\ user_data' = disk
    /\ slot' = [s \in Slots |-> Idle]
    /\ UNCHANGED <<disk, last_cmd>>

\* ---------------------------------------------------------- specifications

\* The commands on the credential store, for updates in the slots S from the
\* users U with the argument lists A.
KeyCommands(S, U, A) ==
    \E s \in S :
        \/ \E u \in U, args \in A : set_key(s, u, args)
        \/ \E u \in U : my_key(s, u)
        \/ \E u \in U : del_key(s, u)
        \/ \E ok \in BOOLEAN : set_key_deleted(s, ok)
        \/ \E ok \in BOOLEAN : set_key_replied(s, ok)
        \/ \E ok \in BOOLEAN : set_key_returns(s, ok)
        \/ \E ok \in BOOLEAN : my_key_returns(s, ok)
        \/ \E ok \in BOOLEAN : del_key_returns(s, ok)

\* /start and the chat messages, with the messages M.
ChatHandlers(S, U, M) ==
    \E s \in S :
        \/ \E u \in U : start(s, u)
        \/ \E u \in U, m \in M : handle_message(s, u, m)
        \/ handle_message_typing_failed(s)
        \/ \E res \in ProviderResults : handle_message_completion(s, res)
        \/ \E ok \in BOOLEAN : handle_message_replied(s, ok)
        \/ \E ok \in BOOLEAN : start_returns(s, ok)
        \/ \E ok \in BOOLEAN : handle_message_returns(s, ok)

\* One running process handling two updates at a time: a key command next to
\* any update.  (Two chat handlers write no state they share, so /start and
\* the chat messages are dispatched to one slot only.)
ChatSlots == {"a"}
Next ==
    \/ KeyCommands(Slots, Users, ArgLists)
    \/ ChatHandlers(ChatSlots, Users, Messages)

Spec == Init /\ [][Next]_vars

\* One user sending key commands one at a time, with every key of at most
\* MaxKeyLen characters; a key is sent while none is stored (overwriting is
\* part of Spec).
AllKeys == SeqsUpTo(KeyAlphabet, MaxKeyLen) \ {<<>>}
NextKeys ==
    \/ /\ ~HasKey(user_data["u1"], API_KEY)
       /\ KeyCommands({"a"}, {"u1"}, {<<k>> : k \in AllKeys})
    \/ KeyCommands({"a"}, {"u1"}, {<<>>})

SpecKeys == Init /\ [][NextKeys]_vars

\* Key commands, one at a time, in a process that is stopped, killed and
\* started again.
NextRestart ==
    \/ KeyCommands({"a"}, Users, ArgLists)
    \/ update_persistence
    \/ crash
    \/ \E webhook_deleted \in BOOLEAN : shutdown_event(webhook_deleted)
    \/ startup_event

SpecRestart == Init /\ [][NextRestart]_vars

\* ------------------------------------------------------------------ claims

Last(q) == q[Len(q)]
Finished(r) == r.pc \in {"done", "raised"}
StoredKey(u, k) == user_data[u] = {<<API_KEY, k>>}

\* The update in slot s has just been handed to its handler in this step.
Dispatched(s) == slot[s].pc \in {"idle", "done", "raised"} /\ slot'[s] # slot[s]

\* err = a \o INVALID_KEY_SIGNAL \o b for some texts a and b.
HasInvalidKeySignal(err) ==
    \E a \in 0..Len(err), b \in 0..Len(err) :
        /\ a + Len(INVALID_KEY_SIGNAL) + b = Len(err)
        /\ \A i \in 1..Len(INVALID_KEY_SIGNAL) : err[a + i] = INVALID_KEY_SIGNAL[i]

\* A chat message (update.message present) from a user the handler found
\* without a key.
ChatWithoutKey(r) ==
    r.handler = "handle_message" /\ r.message # <<>> /\ ~HasKey(r.seen, API_KEY)

\* A chat message with non-empty text from a user the handler found with a key.
ChatWithKey(r) ==
    /\ r.handler = "handle_message"
    /\ r.message # <<>>
    /\ r.message[1] # <<>>
    /\ HasKey(r.seen, API_KEY)

\* C1: a chat message from a user without a stored key is answered with the
\* "set your key first" guidance, the only reply, and no completion request
\* (nor typing action) is ever issued for it.
C1_NoKeyNoRequest ==
    \A s \in Slots :
        ChatWithoutKey(slot[s]) =>
            /\ slot[s].replies = <<Reply(MSG_SET_KEY_FIRST, <<>>)>>
            /\ slot[s].requests = <<>>
            /\ slot[s].typing = 0

\* C1 witness: a user whose key was removed has sent a chat message and got
\* the guidance.
C1_Witness ==
    \E s \in Slots :
        /\ ChatWithoutKey(slot[s])
        /\ slot[s].pc = "done"
        /\ slot[s].sent = <<TRUE>>
        /\ slot[s].replies[1].fmt = MSG_SET_KEY_FIRST
        /\ last_cmd[slot[s].user].cmd = "del_key"
        /\ user_data[slot[s].user] = EmptyDict

\* C2 as stated: once a chat message with text from a user with key K is
\* handled, exactly one completion request was issued, with K as credential
\* and the system prompt followed by the text as messages, and when the
\* provider returned a first choice, the first reply is its content.
C2_ExactlyOneRequest ==
    \A s \in Slots :
        (ChatWithKey(slot[s]) /\ Finished(slot[s])) =>
            /\ Len(slot[s].requests) = 1
            /\ slot[s].requests[1].api_key = GetItem(slot[s].seen, API_KEY)
            /\ slot[s].requests[1].messages =
                 << [role |-> "system", content |-> <<SYSTEM_PROMPT>>],
                    [role |-> "user", content |-> slot[s].message[1]] >>
            /\ (slot[s].result.ok /\ slot[s].result.choices # <<>>) =>
                 slot[s].replies[1] =
                    Reply(MSG_COMPLETION, slot[s].result.choices[1])

\* What the code does guarantee where C2 fails: no request before
\* send_chat_action has returned, and exactly one afterwards, with the key the
\* handler read and the message text; the first reply is the first choice's
\* content when there is one.
RequestOnceTypingReturned ==
    \A s \in Slots :
        ChatWithKey(slot[s]) =>
            IF slot[s].pc \in {"hm_typing"} \/ (slot[s].pc = "raised" /\ slot[s].sent = <<>>)
            THEN slot[s].requests = <<>> /\ slot[s].replies = <<>>
            ELSE /\ slot[s].requests =
                      <<CompletionRequest(GetItem(slot[s].seen, API_KEY), slot[s].message[1])>>
                 /\ (slot[s].result.ok /\ slot[s].result.choices # <<>>) =>
                       slot[s].replies[1] =
                          Reply(MSG_COMPLETION, slot[s].result.choices[1])

\* C3: in the step in which the completion request fails with error text err,
\* the one reply is the "key seems to be incorrect" message if err contains
\* "Incorrect API key" and the generic error message if not, and no user's
\* stored key changes.
C3_ErrorClassification ==
    [][\A s \in Slots :
         (/\ slot[s].pc = "hm_typing"
          /\ Len(slot'[s].requests) = 1
          /\ slot'[s].result.err # <<>>) =>
            /\ user_data' = user_data
            /\ Len(slot'[s].replies) = 1
            /\ HasInvalidKeySignal(slot'[s].result.err) =>
                 slot'[s].replies[1] = Reply(MSG_KEY_INVALID, <<>>)
            /\ ~HasInvalidKeySignal(slot'[s].result.err) =>
                 slot'[s].replies[1] = Reply(MSG_ERROR, <<>>)]_vars

\* C3 witness: a request failed with the signal inside a longer error text, the
\* invalid-key reply was delivered, and the key used is still the stored one.
C3_Witness ==
    \E s \in Slots :
        /\ slot[s].handler = "handle_message"
        /\ slot[s].result.err = E_EMBEDDED
        /\ slot[s].replies = <<Reply(MSG_KEY_INVALID, <<>>)>>
        /\ slot[s].pc = "done"
        /\ StoredKey(slot[s].user, slot[s].requests[1].api_key)

\* C4: when /mykey is handled for a user whose latest key command is
\* /setkey K with K of at least 8 characters, the preview is the first 4
\* characters of K, then "...", then the last 4 characters of K.
C4_PreviewOfSetKey ==
    [][\A s \in Slots :
         (/\ Dispatched(s)
          /\ slot'[s].handler = "my_key"
          /\ last_cmd[slot'[s].user].cmd = "set_key"
          /\ Len(last_cmd[slot'[s].user].key) >= 8) =>
            LET K == last_cmd[slot'[s].user].key
                p == slot'[s].replies[1]
            IN  /\ Len(slot'[s].replies) = 1
                /\ p.fmt = MSG_PREVIEW
                /\ Len(p.arg) = 11
                /\ \A i \in 1..4 : p.arg[i] = K[i]
                /\ \A i \in 5..7 : p.arg[i] = "."
                /\ \A i \in 1..4 : p.arg[7 + i] = K[Len(K) - 4 + i]]_vars

\* C4 witness: the preview of a nine-character key has been sent.
C4_Witness ==
    /\ last_cmd["u1"] = [cmd |-> "set_key",
                         key |-> <<"k",".","k","k",".","k","k","k",".">>]
    /\ slot["a"].handler = "my_key"
    /\ slot["a"].pc = "done"
    /\ slot["a"].replies[1].arg = <<"k",".","k","k",".",".",".","k","k","k",".">>

\* C5: /delkey from a user without a stored key does not raise in the handler
\* (it goes on to its reply), replies "You don't have an API key to remove",
\* and changes no user's stored key.
C5_DeleteAbsentKey ==
    [][\A s \in Slots :
         (/\ Dispatched(s)
          /\ slot'[s].handler = "del_key"
          /\ ~HasKey(user_data[slot'[s].user], API_KEY)) =>
            /\ user_data' = user_data
            /\ slot'[s].pc = "reply"
            /\ slot'[s].replies = <<Reply(MSG_NOTHING_TO_REMOVE, <<>>)>>]_vars

\* C5 witness: /delkey of a user without a key was answered while the other
\* user's key stayed stored.
C5_Witness ==
    \E s \in Slots :
        /\ slot[s].handler = "del_key"
        /\ slot[s].seen = EmptyDict
        /\ slot[s].pc = "done"
        /\ slot[s].replies[1].fmt = MSG_NOTHING_TO_REMOVE
        /\ \E u \in Users \ {slot[s].user} : StoredKey(u, K_LONG)

\* C6: each user's dict holds exactly the key of that user's latest /setkey
\* <key> when no /delkey of that user followed it, and nothing otherwise.
C6_StoreFollowsCommands ==
    \A u \in Users :
        user_data[u] = IF last_cmd[u].cmd = "set_key"
                       THEN {<<API_KEY, last_cmd[u].key>>}
                       ELSE EmptyDict

\* C6 witness: one user has overwritten a key (the second argument of /setkey
\* ignored), the other has removed a stored key.
C6_Witness ==
    \E s \in Slots, t \in Slots :
        /\ slot[s].handler = "set_key"
        /\ slot[s].args = <<K_SHORT, K_LONG>>
        /\ StoredKey(slot[s].user, K_SHORT)
        /\ slot[t].handler = "del_key"
        /\ slot[t].user # slot[s].user
        /\ slot[t].seen = {<<API_KEY, K_LONG>>}
        /\ user_data[slot[t].user] = EmptyDict

\* C7: when /setkey <key> fails to delete the triggering message, the failure
\* is logged as a warning, the fallback notice is the only reply attempted
\* (never the notice that the message was deleted), the handler raises only if
\* that reply itself fails, and the key stays stored unless a later command
\* of the user changes it.
C7_DeleteFailureNotFatal ==
    \A s \in Slots :
        (slot[s].handler = "set_key" /\ slot[s].deleted = <<FALSE>>) =>
            /\ slot[s].replies = <<Reply(MSG_SAVED_NOT_DELETED, <<>>)>>
            /\ slot[s].log = <<LogLine(LOG_KEY_SET, <<>>),
                               LogLine(LOG_NOT_DELETED, E_TELEGRAM)>>
            /\ slot[s].deletes = 1
            /\ slot[s].pc \in {"reply", "done", "raised"}
            /\ slot[s].pc = "raised" => slot[s].sent = <<FALSE>>
            /\ last_cmd[slot[s].user] = [cmd |-> "set_key", key |-> slot[s].args[1]]
                  => StoredKey(slot[s].user, slot[s].args[1])

\* C7 witness: the deletion failed, the fallback notice was delivered and the
\* key is stored.
C7_Witness ==
    \E s \in Slots :
        /\ slot[s].handler = "set_key"
        /\ slot[s].deleted = <<FALSE>>
        /\ slot[s].pc = "done"
        /\ slot[s].sent = <<TRUE>>
        /\ slot[s].replies[1].fmt = MSG_SAVED_NOT_DELETED
        /\ StoredKey(slot[s].user, slot[s].args[1])

\* The recoverable errors: a chat message without a stored key, a failed
\* completion request, a failed deletion of the /setkey message.
RecoverableError(r) ==
    \/ ChatWithoutKey(r)
    \/ (r.handler = "handle_message" /\ r.result.err # <<>>)
    \/ (r.handler = "set_key" /\ r.deleted = <<FALSE>>)

\* C8 as stated: no update is given a second completion request, a second
\* deletion or a second reply, and an update that met a recoverable error ends
\* with exactly one reply sent or attempted.
C8_SingleReplyNoRetry ==
    \A s \in Slots :
        /\ Len(slot[s].requests) <= 1
        /\ slot[s].deletes <= 1
        /\ Len(slot[s].replies) <= 1
        /\ (RecoverableError(slot[s]) /\ Finished(slot[s])) =>
              Len(slot[s].replies) = 1

\* What the code does guarantee where C8 fails: at most one request and one
\* deletion per update, and a second reply only after the first one, sent
\* inside a try block, failed; never a third.
SecondReplyOnlyAfterFailedFirst ==
    \A s \in Slots :
        /\ Len(slot[s].requests) <= 1
        /\ slot[s].deletes <= 1
        /\ Len(slot[s].replies) <= 2
        /\ Len(slot[s].replies) = 2 =>
              /\ slot[s].handler \in {"set_key", "handle_message"}
              /\ slot[s].sent[1] = FALSE

\* C9 as stated: when the process starts again after a stop or a crash that
\* found every command completed, each user's stored key is what it was when
\* the process went down.
C9_RestartKeepsKeys ==
    [][(/\ ~running
        /\ running'
        /\ \A s \in Slots : slot[s].pc \in {"idle", "done", "raised"})
          => user_data' = user_data]_vars

\* C10 as stated: no completion request is issued with a key that a finished
\* and acknowledged /delkey of the same user has removed while no key is
\* stored for that user.
C10_NoRequestWithRemovedKey ==
    [][\A s \in Slots :
         Len(slot'[s].requests) > Len(slot[s].requests) =>
            ~ \E t \in Slots :
                /\ slot[t].handler = "del_key"
                /\ slot[t].user = slot[s].user
                /\ slot[t].pc = "done"
                /\ slot[t].sent = <<TRUE>>
                /\ slot[t].seen = {<<API_KEY, Last(slot'[s].requests).api_key>>}
                /\ user_data[slot[s].user] = EmptyDict]_vars

====
